---- MODULE Spec2Model ----
(***************************************************************************)
(* getSignedUrl: the Supabase Edge Function that validates a bearer token, *)
(* confirms that a row of the files table belongs to the caller and mints  *)
(* a signed URL with the service-role client, together with the files      *)
(* table and its row-level-security policies.                              *)
(***************************************************************************)
EXTENDS Naturals, Sequences, FiniteSets

VARIABLES files, rls, req

vars == <<files, rls, req>>

(***************************************************************************)
(* Bounds of the model.                                                    *)
(***************************************************************************)
MaxReq == 2
MaxFiles == 2

Requests == 1..MaxReq

(***************************************************************************)
(* Principals, tokens and the identity provider.                           *)
(***************************************************************************)
Users == {"U1", "U2"}

Tokens == {"t1", "t2", "garbage"}

\* The identity provider's view: the principal a token was issued to.
TokenUser(token) ==
    CASE token = "t1" -> "U1"
      [] token = "t2" -> "U2"
      [] OTHER -> ""

\* The ways supabase.auth.getUser(token) can resolve: the user, an auth error
\* for a bad token, neither error nor user, a fetch failure returned as an
\* error value, or a thrown exception.
GetUserOutcomes(token) ==
    (IF TokenUser(token) # "" THEN {"user"} ELSE {"invalid", "nouser"})
        \cup {"unreachable", "throw"}

(***************************************************************************)
(* Configuration read from the environment.                                *)
(***************************************************************************)
BUCKET_NAME == "uploads"
SIGNED_URL_EXPIRES == 60

\* The two module-level clients and the key each one carries.  Neither has a
\* session: the key is the only credential a query of the client presents.
supabase == [name |-> "supabase", key |-> "anon"]
supabaseAdmin == [name |-> "supabaseAdmin", key |-> "service_role"]

(***************************************************************************)
(* The files table and its row-level security.                             *)
(***************************************************************************)
Paths == {<<"U1", "a.jpg">>, <<"U2", "b.jpg">>}

FileRows == [id : 1..(MaxFiles + 1), path : Paths, owner_id : Users]

\* auth.uid() of a query: the subject of the JWT it presents.  The anon and
\* service-role keys name a role and no user.
AuthUid(client) == "NULL"

\* using (owner_id = auth.uid()); the service role bypasses row security.
RowVisible(client, row) ==
    \/ ~rls
    \/ client.key = "service_role"
    \/ row.owner_id = AuthUid(client)

\* SelectFiles without .eq("owner_id", u).
SelectFilesByPath(client, path, owner) ==
    {row \in files : RowVisible(client, row) /\ row.path = path}

\* .from("files").select(...).eq("path", p).eq("owner_id", u)
SelectFiles(client, path, owner) ==
    {row \in files : /\ RowVisible(client, row)
                     /\ row.path = path
                     /\ row.owner_id = owner}

\* .limit(1).maybeSingle(): no row, or any one of the rows selected.
MaybeSingle(rows) == IF rows = {} THEN {{}} ELSE {{row} : row \in rows}

(***************************************************************************)
(* Requests.                                                               *)
(***************************************************************************)
Methods == {"POST", "GET", "OPTIONS"}

MalformedBody == [json |-> FALSE, type |-> "undefined", str |-> <<>>]
NoFieldBody == [json |-> TRUE, type |-> "undefined", str |-> <<>>]
NonStringBody == [json |-> TRUE, type |-> "number", str |-> <<>>]
EmptyStringBody == [json |-> TRUE, type |-> "string", str |-> <<>>]
PathBody(p) == [json |-> TRUE, type |-> "string", str |-> p]

BadBodies == {MalformedBody, NoFieldBody, NonStringBody, EmptyStringBody}

\* An Authorization header as the words around its first white space; <<>>
\* is an absent header.
Headers == {<<>>, <<"Basic", "t1">>, <<"Bearer", "t1">>, <<"bearer", "t2">>,
            <<"Bearer", "garbage">>}

RequestInputs ==
    [method : {"GET", "OPTIONS"}, body : {NoFieldBody},
     auth : {<<>>, <<"Bearer", "t1">>}]
    \cup [method : {"POST"}, body : BadBodies, auth : {<<>>, <<"Bearer", "t1">>}]
    \cup [method : {"POST"}, body : {PathBody(p) : p \in Paths}, auth : Headers]

NoSnapshot == [own |-> 0, foreign |-> FALSE, rls |-> FALSE]

IdleRequest ==
    [pc |-> "idle", stage |-> "None", method |-> "", body |-> NoFieldBody,
     auth |-> <<>>, token |-> "", userId |-> "", fileRow |-> {},
     calls |-> <<>>, seen |-> NoSnapshot, logged |-> <<>>, responses |-> <<>>]

(***************************************************************************)
(* Responses.                                                              *)
(***************************************************************************)
ErrorBody(msg) == [error |-> msg, signedUrl |-> {}, expiresIn |-> {}]

\* jsonResponse without the cross-origin header.
jsonResponseNoCors(body, status) ==
    [status |-> status, body |-> {body},
     headers |-> {<<"content-type", "application/json">>}]

jsonResponse(body, status) ==
    [status |-> status, body |-> {body},
     headers |-> {<<"content-type", "application/json">>,
                  <<"access-control-allow-origin", "*">>}]

PreflightResponse ==
    [status |-> 204, body |-> {},
     headers |-> {<<"access-control-allow-origin", "*">>,
                  <<"access-control-allow-methods", "POST, OPTIONS">>,
                  <<"access-control-allow-headers", "Authorization, Content-Type">>}]

\* The files table as "create table" leaves it: empty, row-level security not
\* yet enabled (the migration's next statement); no request in flight.
Init ==
    /\ files = {}
    /\ rls = FALSE
    /\ req = [r \in Requests |-> IdleRequest]

(***************************************************************************)
(* The request handler, cut at its suspension points.                      *)
(***************************************************************************)
Call(client, op, args) ==
    [client |-> client.name, op |-> op, args |-> args, ret |-> "pending",
     detail |-> ""]

\* The handler returns `resp`: the request is over, in `stage`.
Return(q, stage, resp) ==
    [q EXCEPT !.pc = "done", !.stage = stage,
              !.responses = Append(@, resp)]

Reject(q, msg, status) == Return(q, "Rejected", jsonResponse(ErrorBody(msg), status))

\* The awaited call resolves with `ret`.
Resolve(q, ret) == [q EXCEPT !.calls[Len(q.calls)].ret = ret]

\* The text of the error a downstream call fails with ("" when it gives none).
Details == {"e1", "e2"}

DetailsOf(outcome) ==
    IF outcome \in {"invalid", "unreachable", "error", "throw"} THEN Details ELSE {""}

\* The awaited call fails with an error of text `detail`.
WithDetail(q, detail) == [q EXCEPT !.calls[Len(q.calls)].detail = detail]

\* LogAndReject with the error's text sent to the caller.
LogAndRejectLeaking(q, msg, status) ==
    Reject([q EXCEPT !.logged = Append(@, q.calls[Len(q.calls)].detail)],
           q.calls[Len(q.calls)].detail, status)

\* console.error(..., err); return jsonResponse({ error: msg }, status)
LogAndReject(q, msg, status) ==
    Reject([q EXCEPT !.logged = Append(@, q.calls[Len(q.calls)].detail)], msg, status)

Lower(s) ==
    CASE s = "Bearer" -> "bearer"
      [] s = "Basic" -> "basic"
      [] OTHER -> s

\* FilePathInvalid without the typeof test.
FilePathFalsy(body) ==
    \/ body.type = "undefined"
    \/ body.type = "string" /\ body.str = <<>>

\* !filePath || typeof filePath !== "string"
FilePathInvalid(body) ==
    \/ body.type = "undefined"
    \/ body.type = "string" /\ body.str = <<>>
    \/ body.type # "string"

\* BearerMatch accepting any scheme.
AnySchemeMatch(auth) == Len(auth) = 2 /\ auth[2] # ""

\* authHeader.match(/^Bearer\s+(.+)$/i)
BearerMatch(auth) ==
    /\ Len(auth) = 2
    /\ Lower(auth[1]) = "bearer"
    /\ auth[2] # ""

\* TokenRejected without the !userData?.user test.
TokenRejectedOnError(outcome) == outcome \in {"invalid", "unreachable"}

\* userErr || !userData?.user
TokenRejected(outcome) == outcome \in {"invalid", "nouser", "unreachable"}

\* The ownership lookup sent through the service-role client.
LookupThroughAdmin == supabaseAdmin

\* The client the ownership lookup is sent through, and the one that mints.
LookupClient == supabase
MintClient == supabaseAdmin

\* serve hands a request to the handler.  Invocations are numbered in the
\* order of their arrival.
Arrive(r, input) ==
    /\ req[r].pc = "idle"
    /\ \A s \in Requests : s < r => req[s].pc # "idle"
    /\ req' = [req EXCEPT ![r] = [IdleRequest EXCEPT
                  !.pc = "start", !.stage = "Received",
                  !.method = input.method, !.body = input.body,
                  !.auth = input.auth]]
    /\ UNCHANGED <<files, rls>>

\* ValidateRequest reading the Authorization header before anything else.
ValidateHeaderFirst(q) ==
    IF ~BearerMatch(q.auth) THEN Reject(q, "Missing Authorization header", 401)
    ELSE IF q.method = "OPTIONS" THEN Return(q, q.stage, PreflightResponse)
    ELSE IF q.method # "POST" THEN Reject(q, "Method Not Allowed", 405)
    ELSE IF ~q.body.json THEN Reject(q, "Invalid JSON body", 400)
    ELSE IF FilePathInvalid(q.body)
        THEN Reject(q, "filePath is required and must be a string", 400)
    ELSE [q EXCEPT !.pc = "getUser", !.stage = "Validated",
                   !.token = q.auth[2],
                   !.calls = Append(@, Call(supabase, "auth.getUser", <<q.auth[2]>>))]

\* Method, body, filePath and Authorization checks, then the getUser call.
ValidateRequest(q) ==
    IF q.method = "OPTIONS" THEN Return(q, q.stage, PreflightResponse)
    ELSE IF q.method # "POST" THEN Reject(q, "Method Not Allowed", 405)
    ELSE IF ~q.body.json THEN Reject(q, "Invalid JSON body", 400)
    ELSE IF FilePathInvalid(q.body)
        THEN Reject(q, "filePath is required and must be a string", 400)
    ELSE IF ~BearerMatch(q.auth)
        THEN Reject(q, "Missing Authorization header", 401)
    ELSE [q EXCEPT !.pc = "getUser", !.stage = "Validated",
                   !.token = q.auth[2],
                   !.calls = Append(@, Call(supabase, "auth.getUser", <<q.auth[2]>>))]

Validate(r) ==
    /\ req[r].pc = "start"
    /\ req' = [req EXCEPT ![r] = ValidateRequest(req[r])]
    /\ UNCHANGED <<files, rls>>

\* AfterGetUser calling getUser a second time when the provider was unreachable.
AfterGetUserRetry(q, outcome) ==
    IF outcome = "throw" THEN LogAndReject(Resolve(q, outcome), "Internal server error", 500)
    ELSE IF outcome = "unreachable" /\ Len(q.calls) < 2
        THEN [Resolve(q, outcome) EXCEPT
                !.calls = Append(@, Call(supabase, "auth.getUser", <<q.token>>))]
    ELSE IF TokenRejected(outcome)
        THEN Reject(Resolve(q, outcome), "Invalid or expired token", 401)
    ELSE [Resolve(q, outcome) EXCEPT
            !.pc = "lookup", !.stage = "TokenChecked",
            !.userId = TokenUser(q.token),
            !.calls = Append(@, Call(LookupClient, "from(files).select",
                                     <<q.body.str, TokenUser(q.token)>>))]

\* AfterGetUser answering 401 without returning: the handler goes on to the lookup.
AfterGetUserNoReturn(q, outcome) ==
    IF outcome = "throw" THEN LogAndReject(Resolve(q, outcome), "Internal server error", 500)
    ELSE [Resolve(q, outcome) EXCEPT
            !.pc = "lookup", !.stage = "TokenChecked",
            !.userId = TokenUser(q.token),
            !.responses = IF TokenRejected(outcome)
                          THEN Append(@, jsonResponse(ErrorBody("Invalid or expired token"), 401))
                          ELSE @,
            !.calls = Append(@, Call(LookupClient, "from(files).select",
                                     <<q.body.str, TokenUser(q.token)>>))]

\* AfterGetUser with the user id kept in a variable the invocations share: a
\* request in flight finds the id another request left there.
AfterGetUserSharedUser(q, outcome) ==
    LET others == {s \in Requests : req[s].pc \in {"lookup", "mint"}}
        uid == IF others = {} THEN TokenUser(q.token)
               ELSE req[CHOOSE s \in others : TRUE].userId
    IN IF outcome = "throw"
          THEN LogAndReject(Resolve(q, outcome), "Internal server error", 500)
       ELSE IF TokenRejected(outcome)
          THEN Reject(Resolve(q, outcome), "Invalid or expired token", 401)
       ELSE [Resolve(q, outcome) EXCEPT
               !.pc = "lookup", !.stage = "TokenChecked",
               !.userId = uid,
               !.calls = Append(@, Call(LookupClient, "from(files).select",
                                        <<q.body.str, uid>>))]

\* getUser resolved: reject, or take the user id and send the ownership lookup.
AfterGetUser(q, outcome) ==
    IF outcome = "throw" THEN LogAndReject(Resolve(q, outcome), "Internal server error", 500)
    ELSE IF TokenRejected(outcome)
        THEN Reject(Resolve(q, outcome), "Invalid or expired token", 401)
    ELSE [Resolve(q, outcome) EXCEPT
            !.pc = "lookup", !.stage = "TokenChecked",
            !.userId = TokenUser(q.token),
            !.calls = Append(@, Call(LookupClient, "from(files).select",
                                     <<q.body.str, TokenUser(q.token)>>))]

GetUserReturns(r) ==
    /\ req[r].pc = "getUser"
    /\ \E outcome \in GetUserOutcomes(req[r].token) :
          \E detail \in DetailsOf(outcome) :
             req' = [req EXCEPT ![r] = AfterGetUser(WithDetail(req[r], detail), outcome)]
    /\ UNCHANGED <<files, rls>>

\* What the files table holds for (path, owner) when the lookup is answered.
Snapshot(path, owner) ==
    [own |-> Cardinality({row \in files : row.path = path /\ row.owner_id = owner}),
     foreign |-> \E row \in files : row.path = path /\ row.owner_id # owner,
     rls |-> rls]

\* AfterLookup answering 404 when no row has the path at all.
AfterLookupNotFound(q, outcome, fileRow) ==
    IF outcome = "throw" THEN LogAndReject(Resolve(q, outcome), "Internal server error", 500)
    ELSE IF outcome = "error"
        THEN LogAndReject(Resolve(q, outcome), "Internal server error", 500)
    ELSE IF fileRow = {} /\ ~q.seen.foreign
        THEN Reject(Resolve(q, "norow"), "Not Found", 404)
    ELSE IF fileRow = {} THEN Reject(Resolve(q, "norow"), "Forbidden", 403)
    ELSE [Resolve(q, "row") EXCEPT
            !.pc = "mint", !.stage = "OwnershipChecked",
            !.fileRow = fileRow,
            !.calls = Append(@, Call(MintClient, "storage.createSignedUrl",
                                     <<q.body.str, SIGNED_URL_EXPIRES>>))]

\* AfterLookup without the fileErr test: a failed lookup has no row.
AfterLookupErrorIgnored(q, outcome, fileRow) ==
    IF outcome = "throw" THEN LogAndReject(Resolve(q, outcome), "Internal server error", 500)
    ELSE IF fileRow = {} THEN Reject(Resolve(q, outcome), "Forbidden", 403)
    ELSE [Resolve(q, "row") EXCEPT
            !.pc = "mint", !.stage = "OwnershipChecked",
            !.fileRow = fileRow,
            !.calls = Append(@, Call(MintClient, "storage.createSignedUrl",
                                     <<q.body.str, SIGNED_URL_EXPIRES>>))]

\* AfterLookup answering from a cache: the response already issued for the
\* same user and path is sent again, without a mint call.
AfterLookupCached(q, outcome, fileRow) ==
    LET hits == {s \in Requests : /\ req[s].stage = "Issued"
                                  /\ req[s].userId = q.userId
                                  /\ req[s].body = q.body}
    IN IF outcome = "throw"
          THEN LogAndReject(Resolve(q, outcome), "Internal server error", 500)
       ELSE IF outcome = "error"
          THEN LogAndReject(Resolve(q, outcome), "Internal server error", 500)
       ELSE IF fileRow = {} THEN Reject(Resolve(q, "norow"), "Forbidden", 403)
       ELSE IF hits # {}
          THEN Return([Resolve(q, "row") EXCEPT !.fileRow = fileRow], "Issued",
                      req[CHOOSE s \in hits : TRUE].responses[1])
       ELSE [Resolve(q, "row") EXCEPT
               !.pc = "mint", !.stage = "OwnershipChecked",
               !.fileRow = fileRow,
               !.calls = Append(@, Call(MintClient, "storage.createSignedUrl",
                                        <<q.body.str, SIGNED_URL_EXPIRES>>))]

\* The lookup resolved with `fileRow` (no row, or the row) or failed.
AfterLookup(q, outcome, fileRow) ==
    IF outcome = "throw" THEN LogAndReject(Resolve(q, outcome), "Internal server error", 500)
    ELSE IF outcome = "error"
        THEN LogAndReject(Resolve(q, outcome), "Internal server error", 500)
    ELSE IF fileRow = {} THEN Reject(Resolve(q, "norow"), "Forbidden", 403)
    ELSE [Resolve(q, "row") EXCEPT
            !.pc = "mint", !.stage = "OwnershipChecked",
            !.fileRow = fileRow,
            !.calls = Append(@, Call(MintClient, "storage.createSignedUrl",
                                     <<q.body.str, SIGNED_URL_EXPIRES>>))]

LookupReturns(r) ==
    /\ req[r].pc = "lookup"
    /\ LET q == req[r]
           c == IF q.calls[Len(q.calls)].client = supabaseAdmin.name
                THEN supabaseAdmin ELSE supabase
       IN \/ \E fileRow \in MaybeSingle(SelectFiles(c, q.body.str, q.userId)) :
                req' = [req EXCEPT ![r] =
                          AfterLookup([q EXCEPT !.seen = Snapshot(q.body.str, q.userId)],
                                      "ok", fileRow)]
          \/ \E outcome \in {"error", "throw"} :
                \E detail \in DetailsOf(outcome) :
                   req' = [req EXCEPT ![r] = AfterLookup(WithDetail(q, detail), outcome, {})]
    /\ UNCHANGED <<files, rls>>

\* storage.from(BUCKET_NAME).createSignedUrl(path, expiresIn) of the object store.
SignedUrl(path, expiresIn) ==
    [bucket |-> BUCKET_NAME, path |-> path, expiresIn |-> expiresIn]

\* AfterMint outside the try block: an exception of createSignedUrl escapes the
\* handler and no response is produced.
AfterMintUncaught(q, outcome) ==
    IF outcome = "throw" THEN [Resolve(q, outcome) EXCEPT !.pc = "crashed"]
    ELSE IF outcome \in {"error", "nodata"}
        THEN LogAndReject(Resolve(q, outcome), "Failed to create signed URL", 500)
    ELSE Return(Resolve(q, outcome), "Issued",
                jsonResponse([error |-> "",
                              signedUrl |-> {SignedUrl(q.calls[Len(q.calls)].args[1],
                                                       q.calls[Len(q.calls)].args[2])},
                              expiresIn |-> {SIGNED_URL_EXPIRES}], 200))

\* The mint resolved: answer with the URL, or fail.
AfterMint(q, outcome) ==
    IF outcome = "throw" THEN LogAndReject(Resolve(q, outcome), "Internal server error", 500)
    ELSE IF outcome \in {"error", "nodata"}
        THEN LogAndReject(Resolve(q, outcome), "Failed to create signed URL", 500)
    ELSE Return(Resolve(q, outcome), "Issued",
                jsonResponse([error |-> "",
                              signedUrl |-> {SignedUrl(q.calls[Len(q.calls)].args[1],
                                                       q.calls[Len(q.calls)].args[2])},
                              expiresIn |-> {SIGNED_URL_EXPIRES}], 200))

\* MintReturns deleting the row it issued the URL for.
MintReturnsDeletingRow(r) ==
    /\ req[r].pc = "mint"
    /\ \E outcome \in {"url", "error", "nodata", "throw"} :
          \E detail \in DetailsOf(outcome) :
             req' = [req EXCEPT ![r] = AfterMint(WithDetail(req[r], detail), outcome)]
    /\ files' = files \ req[r].fileRow
    /\ UNCHANGED rls

MintReturns(r) ==
    /\ req[r].pc = "mint"
    /\ \E outcome \in {"url", "error", "nodata", "throw"} :
          \E detail \in DetailsOf(outcome) :
             req' = [req EXCEPT ![r] = AfterMint(WithDetail(req[r], detail), outcome)]
    /\ UNCHANGED <<files, rls>>

(***************************************************************************)
(* The files table: uploads by owners, and the migration's statements.     *)
(***************************************************************************)
\* The upload flow records an object: with check (owner_id = auth.uid()).
InsertFile(u, path) ==
    /\ Cardinality(files) < MaxFiles
    /\ files' = files \cup {[id |-> Cardinality(files) + 1, path |-> path, owner_id |-> u]}
    /\ UNCHANGED <<rls, req>>

\* alter table public.files enable row level security, and its policies.
EnableRowLevelSecurity ==
    /\ ~rls
    /\ rls' = TRUE
    /\ UNCHANGED <<files, req>>

Next ==
    \/ \E r \in Requests, input \in RequestInputs : Arrive(r, input)
    \/ \E r \in Requests : Validate(r)
    \/ \E r \in Requests : GetUserReturns(r)
    \/ \E r \in Requests : LookupReturns(r)
    \/ \E r \in Requests : MintReturns(r)
    \/ \E u \in Users, path \in Paths : InsertFile(u, path)
    \/ EnableRowLevelSecurity

Spec == Init /\ [][Next]_vars

(***************************************************************************)
(* Vocabulary of the properties.                                           *)
(***************************************************************************)
GETUSER == "auth.getUser"
SELECT == "from(files).select"
MINT == "storage.createSignedUrl"

Done(q) == q.pc = "done"
Arrived(q) == q.pc \notin {"idle", "start"}
Status(q) == IF q.responses = <<>> THEN 0 ELSE q.responses[1].status
CallsTo(q, op) == {i \in 1..Len(q.calls) : q.calls[i].op = op}
Returned(q, op, rets) == \E i \in CallsTo(q, op) : q.calls[i].ret \in rets
OpsOf(q) == [i \in 1..Len(q.calls) |-> q.calls[i].op]

\* A string filePath that is not empty, and a header of the Bearer form.
HasFilePath(q) == q.body.json /\ q.body.type = "string" /\ q.body.str \in Paths
BearerHeaders == {<<"Bearer", "t1">>, <<"bearer", "t2">>, <<"Bearer", "garbage">>}
WellFormed(q) == q.method = "POST" /\ HasFilePath(q) /\ q.auth \in BearerHeaders

\* The handler answered 200 with a signed URL.
Issued(q) ==
    /\ Done(q)
    /\ Status(q) = 200
    /\ \E b \in q.responses[1].body : b.signedUrl # {}

\* The handler runs on when the call it awaits resolves, and every downstream
\* call does resolve: by a value, an error or an exception.
HandlerStep(r) ==
    Validate(r) \/ GetUserReturns(r) \/ LookupReturns(r) \/ MintReturns(r)

Fairness == \A r \in Requests : WF_vars(HandlerStep(r))

LiveSpec == Init /\ [][Next]_vars /\ Fairness

TypeOK ==
    /\ files \subseteq FileRows
    /\ rls \in BOOLEAN
    /\ \A r \in Requests :
          /\ req[r].pc \in {"idle", "start", "getUser", "lookup", "mint", "done"}
          /\ req[r].stage \in {"None", "Received", "Validated", "TokenChecked",
                               "OwnershipChecked", "Issued", "Rejected"}

(***************************************************************************)
(* C1: a request is answered 200 with a signed URL, or has had the mint    *)
(* call made for it, only if earlier in that request getUser validated the *)
(* token to a principal U and the ownership lookup then returned a row     *)
(* whose path is the requested filePath and whose owner_id is U.           *)
(***************************************************************************)
C1_IssuanceSafety ==
    \A r \in Requests :
        LET q == req[r] IN
        (Issued(q) \/ q.stage = "Issued" \/ CallsTo(q, MINT) # {}) =>
            /\ Len(q.calls) = 3
            /\ q.calls[1].op = GETUSER /\ q.calls[1].ret = "user"
            /\ q.calls[2].op = SELECT /\ q.calls[2].ret = "row"
            /\ q.calls[3].op = MINT
            /\ \E row \in files :
                  /\ q.fileRow = {row}
                  /\ row.path = q.body.str
                  /\ row.owner_id = TokenUser(q.calls[1].args[1])
                  /\ row.owner_id \in Users

C1_Witness == \E r \in Requests : Issued(req[r]) /\ req[r].stage = "Issued"

(***************************************************************************)
(* C2: a well-formed POST whose token is validated to U, while the files   *)
(* table holds exactly one row with path = filePath and owner_id = U (and  *)
(* neither the lookup nor the mint fails), is answered 200 with a          *)
(* signedUrl and expiresIn = SIGNED_URL_EXPIRES after exactly one call of  *)
(* the service-role client -- also once row-level security is enabled.     *)
(***************************************************************************)
C2_OwnerIsIssued ==
    \A r \in Requests :
        LET q == req[r] IN
        ( /\ Done(q)
          /\ WellFormed(q)
          /\ Returned(q, GETUSER, {"user"})
          /\ Returned(q, SELECT, {"row", "norow"})
          /\ q.seen.own = 1
          /\ ~Returned(q, MINT, {"error", "nodata", "throw"}) ) =>
            /\ Issued(q)
            /\ \A b \in q.responses[1].body : b.expiresIn = {SIGNED_URL_EXPIRES}
            /\ Cardinality({i \in 1..Len(q.calls) :
                              q.calls[i].client = "supabaseAdmin"}) = 1

(***************************************************************************)
(* C3: with a valid token for U and no row matching (filePath, U), the     *)
(* answer is 403 "Forbidden" and no mint call is made; it is the same      *)
(* answer whether no row has that path or one has it under another owner.  *)
(***************************************************************************)
NoOwnedRow(q) ==
    /\ Returned(q, GETUSER, {"user"})
    /\ Returned(q, SELECT, {"row", "norow"})
    /\ q.seen.own = 0

C3_ExistenceHiding ==
    /\ \A r \in Requests :
          NoOwnedRow(req[r]) =>
              /\ Done(req[r])
              /\ Status(req[r]) = 403
              /\ CallsTo(req[r], MINT) = {}
    /\ \A r1, r2 \in Requests :
          (NoOwnedRow(req[r1]) /\ NoOwnedRow(req[r2])) =>
              req[r1].responses = req[r2].responses

C3_Witness ==
    \E r1, r2 \in Requests :
        /\ NoOwnedRow(req[r1]) /\ req[r1].seen.foreign /\ ~req[r1].seen.rls
        /\ NoOwnedRow(req[r2]) /\ ~req[r2].seen.foreign
        /\ req[r1].body = req[r2].body
        /\ Status(req[r1]) = 403

(***************************************************************************)
(* C4: when getUser reports the token invalid (an auth error, or no user), *)
(* the answer is 401 and neither the lookup nor the mint is called: the    *)
(* request is over, neither Forbidden nor Issued.                          *)
(***************************************************************************)
C4_InvalidTokenIs401 ==
    \A r \in Requests :
        Returned(req[r], GETUSER, {"invalid", "nouser"}) =>
            /\ Done(req[r])
            /\ Status(req[r]) = 401
            /\ req[r].stage = "Rejected"
            /\ CallsTo(req[r], SELECT) = {}
            /\ CallsTo(req[r], MINT) = {}

C4_Witness ==
    \E r1, r2 \in Requests :
        /\ Returned(req[r1], GETUSER, {"invalid"}) /\ Status(req[r1]) = 401
        /\ Returned(req[r2], GETUSER, {"nouser"}) /\ Status(req[r2]) = 401

(***************************************************************************)
(* C5: when the identity provider is unreachable during getUser, whether   *)
(* that arrives as a thrown exception or as a returned error value, the    *)
(* answer is 500, not 401, and neither the lookup nor the mint is called.  *)
(***************************************************************************)
C5_ProviderFailureIs500 ==
    \A r \in Requests :
        Returned(req[r], GETUSER, {"unreachable", "throw"}) =>
            /\ Done(req[r])
            /\ Status(req[r]) = 500
            /\ CallsTo(req[r], SELECT) = {}
            /\ CallsTo(req[r], MINT) = {}

(***************************************************************************)
(* C6: a POST request whose body has no filePath, or a filePath that is    *)
(* not a string, is answered 400 without any downstream call (getUser,     *)
(* lookup, mint), whatever its Authorization header is.                    *)
(***************************************************************************)
C6_MissingFilePathIs400 ==
    \A r \in Requests :
        LET q == req[r] IN
        (Arrived(q) /\ q.method = "POST" /\ q.body.type # "string") =>
            /\ Done(q)
            /\ Status(q) = 400
            /\ q.calls = <<>>

C6_Witness ==
    \E r1, r2 \in Requests :
        /\ req[r1].method = "POST" /\ req[r1].body = NoFieldBody
        /\ req[r1].auth = <<"Bearer", "t1">> /\ Status(req[r1]) = 400
        /\ req[r2].method = "POST" /\ req[r2].body = NonStringBody
        /\ req[r2].auth = <<>> /\ Status(req[r2]) = 400

(***************************************************************************)
(* C7, as stated: a POST request whose Authorization header is missing or  *)
(* not of the form "Bearer <token>" is answered 401 without any downstream *)
(* call, whatever else is wrong with it (a malformed body, no filePath).   *)
(***************************************************************************)
C7_BadHeaderIs401Always ==
    \A r \in Requests :
        LET q == req[r] IN
        (Arrived(q) /\ q.method = "POST" /\ q.auth \notin BearerHeaders) =>
            /\ Done(q)
            /\ Status(q) = 401
            /\ q.calls = <<>>

(***************************************************************************)
(* C7, amended: a POST request with a parseable body and a non-empty       *)
(* string filePath whose Authorization header is missing or not of the     *)
(* form "Bearer <token>" is answered 401 without any downstream call.      *)
(***************************************************************************)
C7_BadHeaderIs401 ==
    \A r \in Requests :
        LET q == req[r] IN
        (Arrived(q) /\ q.method = "POST" /\ HasFilePath(q)
            /\ q.auth \notin BearerHeaders) =>
            /\ Done(q)
            /\ Status(q) = 401
            /\ q.calls = <<>>

C7_Witness ==
    \E r1, r2 \in Requests :
        /\ req[r1].method = "POST" /\ HasFilePath(req[r1])
        /\ req[r1].auth = <<>> /\ Status(req[r1]) = 401
        /\ req[r2].method = "POST" /\ HasFilePath(req[r2])
        /\ req[r2].auth = <<"Basic", "t1">> /\ Status(req[r2]) = 401

(***************************************************************************)
(* C8: the service-role client is used for the signed-URL mint and for     *)
(* nothing else, and the anon client for getUser and the ownership lookup  *)
(* and never for the mint.                                                 *)
(***************************************************************************)
C8_TwoClientSeparation ==
    \A r \in Requests :
        \A i \in 1..Len(req[r].calls) :
            LET c == req[r].calls[i] IN
            /\ c.client \in {"supabase", "supabaseAdmin"}
            /\ c.client = "supabaseAdmin" <=> c.op = MINT
            /\ c.client = "supabase" <=> c.op \in {GETUSER, SELECT}

C8_Witness ==
    \E r \in Requests :
        /\ Len(req[r].calls) = 3
        /\ req[r].calls[1].client = "supabase"
        /\ req[r].calls[2].client = "supabase"
        /\ req[r].calls[3].client = "supabaseAdmin"

(***************************************************************************)
(* C9: within a request each downstream call is made at most once and in   *)
(* the order getUser, lookup, mint; a request that passes the Request      *)
(* Validator makes exactly one getUser call, one whose token is validated  *)
(* makes exactly one lookup, and a call that failed is the request's last. *)
(***************************************************************************)
CallOrder == <<GETUSER, SELECT, MINT>>

Failures == {"invalid", "nouser", "unreachable", "throw", "error", "norow", "nodata"}

C9_NoRetriesFixedOrder ==
    \A r \in Requests :
        LET q == req[r] IN
        /\ Len(q.calls) <= 3
        /\ OpsOf(q) = SubSeq(CallOrder, 1, Len(q.calls))
        /\ (Arrived(q) /\ WellFormed(q)) => Cardinality(CallsTo(q, GETUSER)) = 1
        /\ ~(Arrived(q) /\ WellFormed(q)) => q.calls = <<>>
        /\ Returned(q, GETUSER, {"user"}) => Cardinality(CallsTo(q, SELECT)) = 1
        /\ \A i \in 1..Len(q.calls) :
              q.calls[i].ret \in Failures => (i = Len(q.calls) /\ Done(q))

C9_Witness ==
    \E r1, r2 \in Requests :
        /\ Done(req[r1]) /\ Len(req[r1].calls) = 3 /\ req[r1].calls[3].ret = "url"
        /\ Done(req[r2]) /\ Len(req[r2].calls) = 1
        /\ req[r2].calls[1].ret = "unreachable"

(***************************************************************************)
(* C10: a request moves only along Received -> Validated -> TokenChecked   *)
(* -> OwnershipChecked -> Issued, or from a stage before Issued to         *)
(* Rejected; no stage is skipped or revisited; once Issued or Rejected     *)
(* nothing of the request changes and no call is made; and a request       *)
(* produces exactly one response, when it ends.  (The pre-flight answer to *)
(* OPTIONS is given in Received and is neither Issued nor Rejected.)       *)
(***************************************************************************)
StageEdges ==
    {<<"None", "Received">>, <<"Received", "Validated">>,
     <<"Validated", "TokenChecked">>, <<"TokenChecked", "OwnershipChecked">>,
     <<"OwnershipChecked", "Issued">>}
    \cup {<<s, "Rejected">> : s \in {"Received", "Validated", "TokenChecked",
                                      "OwnershipChecked"}}

StageOfPc(q) ==
    CASE q.pc = "idle" -> {"None"}
      [] q.pc = "start" -> {"Received"}
      [] q.pc = "getUser" -> {"Validated"}
      [] q.pc = "lookup" -> {"TokenChecked"}
      [] q.pc = "mint" -> {"OwnershipChecked"}
      [] OTHER -> {"Received", "Issued", "Rejected"}

C10_StateMachine ==
    /\ [](\A r \in Requests :
            /\ req[r].stage \in StageOfPc(req[r])
            /\ Len(req[r].responses) = IF Done(req[r]) THEN 1 ELSE 0
            /\ req[r].stage = "Issued" <=> Issued(req[r])
            /\ req[r].stage = "Rejected" <=>
                  (Done(req[r]) /\ Status(req[r]) \in {400, 401, 403, 405, 500}))
    /\ [][\A r \in Requests :
            /\ req'[r].stage # req[r].stage =>
                  <<req[r].stage, req'[r].stage>> \in StageEdges
            /\ (req'[r].stage = req[r].stage /\ req'[r].pc # req[r].pc) =>
                  (req[r].method = "OPTIONS" /\ req'[r].responses = <<PreflightResponse>>)
            /\ req[r].stage \in {"Issued", "Rejected"} => req'[r] = req[r]
            /\ Done(req[r]) => req'[r] = req[r]]_vars

C10_Witness ==
    \E r1, r2 \in Requests :
        /\ req[r1].stage = "Issued" /\ Len(req[r1].responses) = 1
        /\ req[r2].stage = "Rejected" /\ Len(req[r2].calls) = 2

(***************************************************************************)
(* C11: a lookup that itself fails is answered 500 and the mint call is    *)
(* never made; a mint that fails or returns no data is answered 500        *)
(* without a signed URL, and no call of any client follows it.             *)
(***************************************************************************)
C11_StoreFailureIs500 ==
    \A r \in Requests :
        LET q == req[r] IN
        /\ Returned(q, SELECT, {"error", "throw"}) =>
              /\ Done(q) /\ Status(q) = 500 /\ q.stage = "Rejected"
              /\ CallsTo(q, MINT) = {}
        /\ Returned(q, MINT, {"error", "nodata", "throw"}) =>
              /\ Done(q) /\ Status(q) = 500 /\ q.stage = "Rejected"
              /\ \A b \in q.responses[1].body : b.signedUrl = {}
              /\ Len(q.calls) = 3 /\ q.calls[3].op = MINT

C11_Witness ==
    \E r1, r2 \in Requests :
        /\ Returned(req[r1], SELECT, {"error"}) /\ Status(req[r1]) = 500
        /\ Returned(req[r2], MINT, {"nodata"}) /\ Status(req[r2]) = 500

(***************************************************************************)
(* C12: the error string of every response is one of the handler's fixed   *)
(* messages and never the text of a downstream error; two requests that    *)
(* differ only in the text of the errors their downstream calls failed     *)
(* with get the same status and body.                                      *)
(***************************************************************************)
FixedMessages ==
    {"Method Not Allowed", "Invalid JSON body",
     "filePath is required and must be a string", "Missing Authorization header",
     "Invalid or expired token", "Forbidden", "Internal server error",
     "Failed to create signed URL"}

SameButDetail(q1, q2) ==
    /\ q1.method = q2.method /\ q1.body = q2.body /\ q1.auth = q2.auth
    /\ q1.fileRow = q2.fileRow
    /\ Len(q1.calls) = Len(q2.calls)
    /\ \A i \in 1..Len(q1.calls) :
          /\ q1.calls[i].op = q2.calls[i].op
          /\ q1.calls[i].ret = q2.calls[i].ret

C12_NoErrorDetailLeaks ==
    /\ \A r \in Requests :
          \A i \in 1..Len(req[r].responses) :
             /\ req[r].responses[i].status # 200 =>
                   \A b \in req[r].responses[i].body : b.error \in FixedMessages
             /\ \A b \in req[r].responses[i].body : b.error \notin Details
    /\ \A r1, r2 \in Requests :
          (Done(req[r1]) /\ Done(req[r2]) /\ SameButDetail(req[r1], req[r2])) =>
              req[r1].responses = req[r2].responses

C12_Witness ==
    \E r1, r2 \in Requests :
        /\ Done(req[r1]) /\ Done(req[r2]) /\ SameButDetail(req[r1], req[r2])
        /\ Len(req[r1].calls) = 2
        /\ req[r1].calls[2].ret = "error"
        /\ req[r1].calls[2].detail # req[r2].calls[2].detail
        /\ req[r1].logged # req[r2].logged
        /\ req[r1].responses = req[r2].responses

(***************************************************************************)
(* C13, as stated: every response, the 204 pre-flight answer included,     *)
(* carries content-type: application/json and access-control-allow-origin: *)
(* "*".                                                                    *)
(***************************************************************************)
ContentTypeJson == <<"content-type", "application/json">>
AllowAnyOrigin == <<"access-control-allow-origin", "*">>

C13_AllResponsesJsonAndCors ==
    \A r \in Requests :
        \A i \in 1..Len(req[r].responses) :
            /\ ContentTypeJson \in req[r].responses[i].headers
            /\ AllowAnyOrigin \in req[r].responses[i].headers

(***************************************************************************)
(* C13, amended: every response carries access-control-allow-origin: "*";  *)
(* every response but the body-less 204 pre-flight answer (200, 400, 401,  *)
(* 403, 405, 500) carries content-type: application/json.                  *)
(***************************************************************************)
C13_ResponseHeaders ==
    \A r \in Requests :
        \A i \in 1..Len(req[r].responses) :
            LET resp == req[r].responses[i] IN
            /\ AllowAnyOrigin \in resp.headers
            /\ resp.status \in {200, 204, 400, 401, 403, 405, 500}
            /\ resp.status # 204 => ContentTypeJson \in resp.headers
            /\ resp.status = 204 => (resp.body = {} /\ req[r].method = "OPTIONS")

C13_Witness ==
    \E r1, r2 \in Requests :
        /\ Status(req[r1]) = 204 /\ ContentTypeJson \notin req[r1].responses[1].headers
        /\ Status(req[r2]) = 200 /\ ContentTypeJson \in req[r2].responses[1].headers

(***************************************************************************)
(* C14: an OPTIONS request gets a success response with no body, any other *)
(* method than POST gets 405, and a POST whose body does not parse gets    *)
(* 400; in the three cases the request ends without a downstream call,     *)
(* without a token taken from the Authorization header, and with the same  *)
(* response whatever that header is.                                       *)
(***************************************************************************)
Gated(q) ==
    Arrived(q) /\ (q.method # "POST" \/ ~q.body.json)

C14_MethodAndBodyGating ==
    /\ \A r \in Requests :
          LET q == req[r] IN
          Gated(q) =>
              /\ Done(q) /\ q.calls = <<>> /\ q.token = "" /\ q.userId = ""
              /\ q.method = "OPTIONS" =>
                    (Status(q) = 204 /\ q.responses[1].body = {})
              /\ q.method \notin {"OPTIONS", "POST"} =>
                    (Status(q) = 405 /\ q.stage = "Rejected")
              /\ q.method = "POST" => (Status(q) = 400 /\ q.stage = "Rejected")
    /\ \A r1, r2 \in Requests :
          ( /\ Gated(req[r1]) /\ Gated(req[r2])
            /\ req[r1].method = req[r2].method
            /\ req[r1].body = req[r2].body ) =>
              req[r1].responses = req[r2].responses

C14_Witness ==
    \E r1, r2 \in Requests :
        /\ req[r1].method = "GET" /\ Status(req[r1]) = 405
        /\ req[r1].auth = <<"Bearer", "t1">>
        /\ req[r2].method = "POST" /\ req[r2].body = MalformedBody
        /\ Status(req[r2]) = 400 /\ req[r2].auth = <<>>

(***************************************************************************)
(* C15: concurrent invocations are independent.  Whatever the interleaving *)
(* at the three suspension points, a step of one request changes no other  *)
(* request; the token, user id, call arguments and row of a request come   *)
(* from its own input and from the files table as it is when its lookup is *)
(* answered; and requests with the same input, the same downstream results *)
(* and the same table contents get the same response.                      *)
(***************************************************************************)
OwnUser(q) == IF Len(q.auth) = 2 THEN TokenUser(q.auth[2]) ELSE ""

OwnArgs(q, op) ==
    CASE op = GETUSER -> <<q.auth[2]>>
      [] op = SELECT -> <<q.body.str, OwnUser(q)>>
      [] OTHER -> <<q.body.str, SIGNED_URL_EXPIRES>>

OwnTable(q) ==
    [own |-> Cardinality({row \in files : row.path = q.body.str
                                          /\ row.owner_id = OwnUser(q)}),
     foreign |-> \E row \in files : row.path = q.body.str
                                    /\ row.owner_id # OwnUser(q),
     rls |-> rls]

SameRun(q1, q2) ==
    /\ q1.method = q2.method /\ q1.body = q2.body /\ q1.auth = q2.auth
    /\ q1.seen = q2.seen
    /\ Len(q1.calls) = Len(q2.calls)
    /\ \A i \in 1..Len(q1.calls) : q1.calls[i].ret = q2.calls[i].ret

C15_RequestsIndependent ==
    /\ [](\A r \in Requests :
            LET q == req[r] IN
            /\ q.token # "" => q.token = q.auth[2]
            /\ q.userId # "" => q.userId = OwnUser(q)
            /\ \A i \in 1..Len(q.calls) : q.calls[i].args = OwnArgs(q, q.calls[i].op)
            /\ \A row \in q.fileRow :
                  row.path = q.body.str /\ row.owner_id = OwnUser(q))
    /\ [](\A r1, r2 \in Requests :
            (Done(req[r1]) /\ Done(req[r2]) /\ SameRun(req[r1], req[r2])) =>
                /\ req[r1].responses = req[r2].responses
                /\ req[r1].stage = req[r2].stage)
    /\ [][\A r \in Requests :
            req'[r] # req[r] =>
                /\ \A s \in Requests \ {r} : req'[s] = req[s]
                /\ (req[r].pc = "lookup" /\ Returned(req'[r], SELECT, {"row", "norow"})) =>
                      /\ req'[r].seen = OwnTable(req[r])
                      /\ req'[r].fileRow \subseteq files
                      /\ req'[r].fileRow = {} <=>
                            (OwnTable(req[r]).own = 0 \/ rls)]_vars

C15_Witness ==
    \E r1, r2 \in Requests :
        /\ req[r1].pc = "mint" /\ req[r2].pc = "lookup"
        /\ req[r1].userId # req[r2].userId
        /\ req[r1].body = req[r2].body

(***************************************************************************)
(* C16, as stated: every Issued request made its own getUser, lookup and   *)
(* mint call, the TTL passed to the mint and echoed as expiresIn is the    *)
(* configured one, and, once every request has ended, the number of mint   *)
(* calls equals the number of Issued responses.                            *)
(***************************************************************************)
MintCallsMade == {<<r, i>> \in Requests \X (1..3) : i \in CallsTo(req[r], MINT)}
MintCallsAnswered ==
    {<<r, i>> \in MintCallsMade : req[r].calls[i].ret = "url"}
IssuedRequests == {r \in Requests : Issued(req[r])}

OwnCallsAndTtl ==
    /\ \A r \in IssuedRequests :
          /\ OpsOf(req[r]) = <<GETUSER, SELECT, MINT>>
          /\ req[r].calls[1].ret = "user"
          /\ req[r].calls[2].ret = "row"
          /\ req[r].calls[3].ret = "url"
          /\ \A b \in req[r].responses[1].body :
                /\ b.expiresIn = {SIGNED_URL_EXPIRES}
                /\ \A u \in b.signedUrl :
                      u.expiresIn = SIGNED_URL_EXPIRES /\ u.path = req[r].body.str
    /\ \A c \in MintCallsMade :
          req[c[1]].calls[c[2]].args = <<req[c[1]].body.str, SIGNED_URL_EXPIRES>>

C16_MintCallsEqualIssued ==
    /\ OwnCallsAndTtl
    /\ (\A r \in Requests : req[r].pc \in {"idle", "done"}) =>
          Cardinality(MintCallsMade) = Cardinality(IssuedRequests)

(***************************************************************************)
(* C16, amended: every Issued request made its own getUser, lookup and     *)
(* mint call, the TTL passed to the mint and echoed as expiresIn is the    *)
(* configured one, and the number of mint calls that returned a URL equals *)
(* the number of Issued responses (a mint call that fails is answered 500, *)
(* so mint calls are never fewer than Issued responses).                   *)
(***************************************************************************)
C16_NoCaching ==
    /\ OwnCallsAndTtl
    /\ Cardinality(MintCallsAnswered) = Cardinality(IssuedRequests)
    /\ Cardinality(MintCallsMade) >= Cardinality(IssuedRequests)

C16_Witness ==
    \E r1, r2 \in Requests :
        /\ r1 # r2 /\ Issued(req[r1]) /\ Issued(req[r2])
        /\ req[r1].userId = req[r2].userId /\ req[r1].body = req[r2].body
        /\ Cardinality(MintCallsMade) = 2

(***************************************************************************)
(* C17: no step of a request, whatever its outcome, creates, updates or    *)
(* deletes a row of the files table; only the upload flow changes it.      *)
(***************************************************************************)
C17_ReadOnlyCore ==
    [][(\E r \in Requests : req'[r] # req[r]) => files' = files]_vars

C17_Witness ==
    \E r1, r2 \in Requests :
        /\ Issued(req[r1]) /\ req[r1].fileRow \subseteq files /\ req[r1].fileRow # {}
        /\ Status(req[r2]) = 403 /\ req[r2].seen.foreign
        /\ Cardinality(files) = MaxFiles

(***************************************************************************)
(* C18: whatever rows the insert policy lets principals add, a signed URL  *)
(* is minted on behalf of principal U only for a path whose first segment  *)
(* is U's identifier: the service-role mint never opens another            *)
(* principal's folder.                                                     *)
(***************************************************************************)
FirstSegment(path) == path[1]

C18_MintOnlyInOwnFolder ==
    \A r \in Requests :
        LET q == req[r] IN
        /\ CallsTo(q, MINT) # {} => FirstSegment(q.body.str) = OwnUser(q)
        /\ Issued(q) =>
              \A b \in q.responses[1].body :
                 \A u \in b.signedUrl : FirstSegment(u.path) = OwnUser(q)

(***************************************************************************)
(* C19: provided every downstream call resolves (a value, an error or an   *)
(* exception), every request that arrived eventually ends with exactly one *)
(* response, as Issued or as Rejected (an OPTIONS pre-flight ends with its *)
(* 204 answer); an exception thrown at any of the three suspension points  *)
(* ends the request as Rejected with status 500.                           *)
(***************************************************************************)
Ended(q) ==
    /\ Done(q)
    /\ Len(q.responses) = 1
    /\ IF q.method = "OPTIONS" THEN Status(q) = 204
       ELSE (q.stage = "Issued" /\ Status(q) = 200)
            \/ (q.stage = "Rejected" /\ Status(q) \in {400, 401, 403, 405, 500})

C19_Termination ==
    /\ \A r \in Requests : (req[r].pc # "idle") ~> Ended(req[r])
    /\ [](\A r \in Requests :
            (\E i \in 1..Len(req[r].calls) : req[r].calls[i].ret = "throw") =>
                (Ended(req[r]) /\ req[r].stage = "Rejected" /\ Status(req[r]) = 500))

C19_Witness ==
    \E r1, r2 \in Requests :
        /\ Ended(req[r1]) /\ Len(req[r1].calls) = 3 /\ req[r1].calls[3].ret = "throw"
        /\ Ended(req[r2]) /\ Len(req[r2].calls) = 2 /\ req[r2].calls[2].ret = "throw"

(***************************************************************************)
(* C20: when the files table holds two or more rows with the requested     *)
(* path and the validated principal as owner, the lookup yields one row    *)
(* without error and the request goes on to the mint as with a single      *)
(* matching row: it is not answered 403, and is answered 200 when the mint *)
(* returns a URL.                                                          *)
(***************************************************************************)
C20_DuplicateRowsProceed ==
    \A r \in Requests :
        LET q == req[r] IN
        ( /\ Returned(q, GETUSER, {"user"})
          /\ Returned(q, SELECT, {"row", "norow"})
          /\ q.seen.own >= 2 ) =>
            /\ Returned(q, SELECT, {"row"})
            /\ Cardinality(q.fileRow) = 1
            /\ CallsTo(q, MINT) # {}
            /\ Status(q) # 403
            /\ Returned(q, MINT, {"url"}) => Issued(q)

====
